---- MODULE Spec2Model ----
(***************************************************************************)
(* A model of the file encryptor/decryptor of src/src/main.rs: the iced    *)
(* application App (file_path, password, mode, message), its update        *)
(* handler for the five Messages, password_to_key, and the file system and *)
(* cipher the handler works on.                                            *)
(*                                                                         *)
(* Bytes are 0..255, a buffer is a sequence of bytes, a password is the    *)
(* sequence of its UTF-8 bytes (password.as_bytes()), a path is a string.  *)
(*                                                                         *)
(* The crates behind line 7-9 are modelled as follows.                     *)
(*  - Cbc<Aes256, Pkcs7> (block-modes with block-padding 0.2, the versions *)
(*    that export block_modes::block_padding and go with                   *)
(*    aes::NewBlockCipher): encrypt_vec pads with PKCS7 and chains the     *)
(*    blocks; decrypt_vec refuses a length that is no multiple of the      *)
(*    block size, unchains the blocks, and unpads THE WHOLE BUFFER with    *)
(*    Pkcs7::unpad, which accepts a last byte n with 1 <= n <= length.     *)
(*  - Aes256 itself is abstracted as a key-dependent permutation of the    *)
(*    16-byte blocks with a separately computed inverse (a key addition, a *)
(*    byte substitution, a rotation of the positions, a key addition).     *)
(***************************************************************************)
EXTENDS Integers, Sequences, FiniteSets, TLC

----------------------------------------------------------------------------
(* Program constants *)

\* the AES block size, the length of `let iv = [0u8; 16]`
BlockSize == 16

\* `let mut key = [0u8; 32]` and `i % 32`
KeyLen == 32

(* Bounds of the model *)

\* ProcessFile messages handled in one behaviour of Spec
MaxRuns == 2

\* ProcessFile messages handled in one behaviour of SpecCipher
CipherRuns == 1

\* ProcessFile messages handled in one behaviour of SpecKey
KeyRuns == 1

\* FileSelected messages in flight at once
MaxInflight == 1

\* longest initial file content drawn in SpecCipher
MaxLen == 33

----------------------------------------------------------------------------
(* Option<T>: None is the empty sequence, Some(x) the one-element one *)

None == <<>>

Some(x) == <<x>>

(* Result<T, E> *)

Ok(v) == [ok |-> TRUE, val |-> v]

Err == [ok |-> FALSE, val |-> <<>>]

----------------------------------------------------------------------------
(* enum Mode and its Display *)

Encrypt == "Mode::Encrypt"

Decrypt == "Mode::Decrypt"

Mode == {Encrypt, Decrypt}

fmt(m) == CASE m = Encrypt -> "Encrypt"
            [] m = Decrypt -> "Decrypt"

----------------------------------------------------------------------------
(* Bytes and the ^ of u8 *)

RECURSIVE Xor(_, _)
Xor(a, b) ==
    IF a = 0 THEN b
    ELSE IF b = 0 THEN a
    ELSE ((a + b) % 2) + 2 * Xor(a \div 2, b \div 2)

ZeroKey == [j \in 1..KeyLen |-> 0]

ZeroIv == [j \in 1..BlockSize |-> 0]

----------------------------------------------------------------------------
(* fn password_to_key: the loop `key[i % 32] ^= *byte` over enumerate(),  *)
(* index i of the code is position i + 1 here                             *)

KeyStepAssign(key, bytes, i) ==
    [key EXCEPT ![(i % KeyLen) + 1] = bytes[i + 1]]

KeyStepNoWrap(key, bytes, i) ==
    IF i < KeyLen THEN [key EXCEPT ![i + 1] = Xor(@, bytes[i + 1])] ELSE key

KeyStep(key, bytes, i) ==
    [key EXCEPT ![(i % KeyLen) + 1] = Xor(@, bytes[i + 1])]

\* the loop over enumerate(): from[key, lo, hi] is key after the iterations
\* lo, lo + 1, ..., hi - 1, in this order (the range is halved only to keep
\* the evaluation shallow)
KeyLoop(bytes) ==
    LET from[key \in [1..KeyLen -> 0..255], lo \in 0..Len(bytes), hi \in 0..Len(bytes)] ==
            IF hi <= lo THEN key
            ELSE IF hi = lo + 1 THEN KeyStep(key, bytes, lo)
            ELSE from[from[key, lo, (lo + hi) \div 2], (lo + hi) \div 2, hi]
    IN  from[ZeroKey, 0, Len(bytes)]

password_to_key(password) == KeyLoop(password)

----------------------------------------------------------------------------
(* Aes256::new(&key): a key-dependent permutation of the blocks *)

SubByte(x) == (x * 7 + 99) % 256

InvSubByte(x) == ((x + 256 - 99) * 183) % 256

Rot(i) == ((i + 4) % BlockSize) + 1

InvRot(j) == ((j + 10) % BlockSize) + 1

EncryptBlock(key, b) ==
    [i \in 1..BlockSize |->
        Xor(SubByte(Xor(b[Rot(i)], key[i])), key[i + BlockSize])]

DecryptBlock(key, c) ==
    [j \in 1..BlockSize |->
        Xor(InvSubByte(Xor(c[InvRot(j)], key[InvRot(j) + BlockSize])), key[InvRot(j)])]

XorBlock(a, b) == [i \in 1..BlockSize |-> Xor(a[i], b[i])]

(* Cbc: each block is combined with the previous ciphertext block, the iv first *)

RECURSIVE CbcEncryptBlocks(_, _, _)
CbcEncryptBlocks(key, prev, data) ==
    IF Len(data) = 0 THEN <<>>
    ELSE LET c == EncryptBlock(key, XorBlock(SubSeq(data, 1, BlockSize), prev))
         IN  c \o CbcEncryptBlocks(key, c, SubSeq(data, BlockSize + 1, Len(data)))

RECURSIVE CbcDecryptBlocks(_, _, _)
CbcDecryptBlocks(key, prev, data) ==
    IF Len(data) = 0 THEN <<>>
    ELSE LET c == SubSeq(data, 1, BlockSize)
         IN  XorBlock(DecryptBlock(key, c), prev)
               \o CbcDecryptBlocks(key, c, SubSeq(data, BlockSize + 1, Len(data)))

(* Pkcs7 *)

ZeroPad(data) ==
    data \o [i \in 1..((BlockSize - (Len(data) % BlockSize)) % BlockSize) |-> 0]

Pkcs7Pad(data) ==
    LET n == BlockSize - (Len(data) % BlockSize)
    IN  data \o [i \in 1..n |-> n]

Pkcs7Unpad(data) ==
    IF Len(data) = 0 THEN Err
    ELSE LET l == Len(data)
             n == data[l]
         IN  IF n = 0 \/ n > l THEN Err
             ELSE IF \E i \in (l - n + 1)..(l - 1) : data[i] # n THEN Err
             ELSE Ok(SubSeq(data, 1, l - n))

(* block_mode.encrypt_vec(&file_content), with the padding of line 142 *)

Pad(data) == Pkcs7Pad(data)

encrypt_vec(key, iv, data) == CbcEncryptBlocks(key, iv, Pad(data))

(* block_mode.decrypt_vec(&file_content) *)

decrypt_vec(key, iv, data) ==
    IF Len(data) % BlockSize # 0 THEN Err
    ELSE Pkcs7Unpad(CbcDecryptBlocks(key, iv, data))

----------------------------------------------------------------------------
(* The state *)

VARIABLES
    file_path,   \* App.file_path: Option<PathBuf>
    password,    \* App.password, as bytes
    mode,        \* App.mode
    message,     \* App.message
    fs,          \* the file system: a function from the paths that exist to their content
    inflight,    \* the FileSelected messages of Command::perform not yet delivered
    running,     \* FALSE once a panic in update has ended the process
    budget,      \* ProcessFile messages this behaviour may still handle
    last,        \* what the last ProcessFile did (a record of the run, for the properties)
    prev         \* what the ProcessFile before it did

vars == <<file_path, password, mode, message, fs, inflight, running, budget, last, prev>>

\* the steps of one ProcessFile, in the order of lines 144-161
StepOpen == "File::open"
StepRead == "read_to_end"
StepCipher == "cipher"
StepCreate == "File::create"
StepWrite == "write_all"

\* how a ProcessFile ended: Ok, nothing to do, or the panic that ended the process
Done == "done"
NoFile == "no file selected"
PanicOpen == "Failed to open file"
PanicRead == "Failed to read file"
PanicDecrypt == "BlockModeError"
PanicCreate == "Failed to create output file"
PanicWrite == "Failed to write output file"

Panics == {PanicOpen, PanicRead, PanicDecrypt, PanicCreate, PanicWrite}

NoRun ==
    [outcome |-> "none", path |-> "", mode |-> Encrypt, password |-> <<>>,
     key |-> <<>>, content |-> <<>>, result |-> <<>>, out |-> "",
     before |-> None, steps |-> <<>>]

----------------------------------------------------------------------------
(* fn new: Self::default(); the file system holds the files of `files` *)

AppInit(files, runs) ==
    /\ file_path = None
    /\ password = <<>>
    /\ mode = Encrypt
    /\ message = ""
    /\ fs = files
    /\ inflight = <<>>
    /\ running = TRUE
    /\ budget = runs
    /\ last = NoRun
    /\ prev = NoRun

----------------------------------------------------------------------------
(* fn update *)

RemoveAt(s, i) == SubSeq(s, 1, i - 1) \o SubSeq(s, i + 1, Len(s))

\* Message::BrowseFile; file_dialog is what pick_file() returned
BrowseFile(file_dialog) ==
    /\ running
    /\ IF file_dialog # None
       THEN /\ Len(inflight) < MaxInflight
            /\ file_path' = Some(file_dialog[1])
            /\ inflight' = Append(inflight, file_dialog[1])
       ELSE UNCHANGED <<file_path, inflight>>
    /\ UNCHANGED <<password, mode, message, fs, running, budget, last, prev>>

\* Message::FileSelected(file), the i-th message in flight
FileSelected(i) ==
    /\ running
    /\ i \in 1..Len(inflight)
    /\ file_path' = Some(inflight[i])
    /\ inflight' = RemoveAt(inflight, i)
    /\ UNCHANGED <<password, mode, message, fs, running, budget, last, prev>>

\* Message::PasswordChanged(password)
PasswordChanged(p) ==
    /\ running
    /\ password' = p
    /\ UNCHANGED <<file_path, mode, message, fs, inflight, running, budget, last, prev>>

\* Message::ModeChanged(mode)
ModeChanged(m) ==
    /\ running
    /\ mode' = m
    /\ UNCHANGED <<file_path, password, message, fs, inflight, running, budget, last, prev>>

\* line 148-157: the match on self.mode; decrypt_vec's Err is what unwrap() panics on
TransformEncryptOnly(m, key, iv, file_content) ==
    Ok(encrypt_vec(key, iv, file_content))

Transform(m, key, iv, file_content) ==
    IF m = Encrypt THEN Ok(encrypt_vec(key, iv, file_content))
    ELSE decrypt_vec(key, iv, file_content)

\* line 159: format!("{}_{}", file_path.display(), self.mode)
output_file_path_in_place(path, m) == path

output_file_path(path, m) == path \o "_" \o fmt(m)

\* line 164: format!("{}ed file saved as: {}", self.mode, output_file_path)
saved_message(m, out) == fmt(m) \o "ed file saved as: " \o out

\* the prefixes of the buffer a failing write_all may leave in the file
PartialWrites(result) == {SubSeq(result, 1, k) : k \in 0..(Len(result) - 1)}

\* the files a ProcessFile leaves that got as far as run.steps and wrote `data`:
\* nothing is created before the cipher step is over, File::create that fails
\* creates nothing, and File::create that succeeds truncates the file for write_all
FilesAfterCreateFirst(files, run, data) ==
    IF Len(run.steps) < 5 THEN (output_file_path(run.path, run.mode) :> <<>>) @@ files
    ELSE (run.out :> data) @@ files

FilesAfter(files, run, data) ==
    IF Len(run.steps) < 5 THEN files
    ELSE (run.out :> data) @@ files

\* a ProcessFile that ends in a panic: the process is gone
Panic(run, data) ==
    /\ running' = FALSE
    /\ fs' = FilesAfter(fs, run, data)
    /\ last' = run
    /\ UNCHANGED <<file_path, password, mode, message, inflight>>

\* Message::ProcessFile with no file selected: the `if let` of line 135 does not match
ProcessFileNoneSaved ==
    /\ last' = [NoRun EXCEPT !.outcome = NoFile]
    /\ message' = saved_message(mode, "")
    /\ UNCHANGED <<file_path, password, mode, fs, inflight, running>>

ProcessFileNone ==
    /\ last' = [NoRun EXCEPT !.outcome = NoFile]
    /\ UNCHANGED <<file_path, password, mode, message, fs, inflight, running>>

\* Message::ProcessFile with a file selected, line 136-164
ProcessFileSome ==
    LET path == file_path[1]
        key == password_to_key(password)
        run0 == [NoRun EXCEPT !.path = path, !.mode = mode, !.password = password,
                              !.key = key, !.steps = <<StepOpen>>]
    IN
    \/ \* File::open fails
       Panic([run0 EXCEPT !.outcome = PanicOpen], <<>>)
    \/ /\ path \in DOMAIN fs
       /\ \/ \* read_to_end fails
             Panic([run0 EXCEPT !.outcome = PanicRead, !.steps = <<StepOpen, StepRead>>], <<>>)
          \/ LET file_content == fs[path]
                 result == Transform(mode, key, ZeroIv, file_content)
                 run1 == [run0 EXCEPT !.content = file_content,
                                      !.steps = <<StepOpen, StepRead, StepCipher>>]
             IN
             IF ~result.ok
             THEN \* decrypt_vec(..).unwrap() panics
                  Panic([run1 EXCEPT !.outcome = PanicDecrypt], <<>>)
             ELSE
             LET out == output_file_path(path, mode)
                 run2 == [run1 EXCEPT !.result = result.val, !.out = out,
                                      !.before = IF out \in DOMAIN fs THEN Some(fs[out]) ELSE None,
                                      !.steps = <<StepOpen, StepRead, StepCipher, StepCreate>>]
                 run3 == [run2 EXCEPT !.steps = <<StepOpen, StepRead, StepCipher, StepCreate, StepWrite>>]
             IN
             \/ \* File::create fails
                Panic([run2 EXCEPT !.outcome = PanicCreate], <<>>)
             \/ \* File::create has truncated the file, write_all fails part-way
                \E written \in PartialWrites(result.val) :
                    Panic([run3 EXCEPT !.outcome = PanicWrite], written)
             \/ /\ fs' = FilesAfter(fs, run3, result.val)
                /\ message' = saved_message(mode, out)
                /\ last' = [run3 EXCEPT !.outcome = Done]
                /\ UNCHANGED <<file_path, password, mode, inflight, running>>

ProcessFile ==
    /\ running
    /\ budget > 0
    /\ budget' = budget - 1
    /\ prev' = last
    /\ IF file_path = None THEN ProcessFileNone ELSE ProcessFileSome

----------------------------------------------------------------------------
(* The inputs the specifications draw from *)

\* "secret" and "hello" as bytes
Secret == <<115, 101, 99, 114, 101, 116>>

Hello == <<104, 101, 108, 108, 111>>

\* a buffer of n bytes, byte i being (a * i + b) mod 256
Bytes(n, a, b) == [i \in 1..n |-> (a * i + b) % 256]

\* n bytes of value v
Fill(n, v) == [i \in 1..n |-> v]

\* the ciphertext whose blocks decrypt (before unpadding) to `buf`
RawEncrypt(p, buf) == CbcEncryptBlocks(password_to_key(p), ZeroIv, buf)

\* Spec: the application, two runs
AppPasswords == {<<>>, Secret}

AppContents ==
    { <<>>, Hello, Bytes(BlockSize, 7, 3),
      RawEncrypt(Secret, Bytes(11, 5, 40) \o Fill(5, 5)) }

\* SpecCipher: one run over many file contents
CipherPasswords == {<<>>, Secret}

\* decrypted buffers with a last block of every kind
CraftedBuffers ==
    { Bytes(15, 3, 60) \o Fill(1, 1),                 \* padding 1
      Fill(16, 16),                                   \* a whole block of padding
      Bytes(27, 11, 2) \o Fill(5, 5),                 \* two blocks, padding 5
      Bytes(15, 3, 60) \o Fill(1, 0),                 \* last byte 0
      Bytes(15, 3, 60) \o Fill(1, 17),                \* last byte 17 > length 16
      Bytes(11, 3, 60) \o <<5, 5, 6, 5, 5>>,          \* padding 5 with a wrong byte
      Fill(32, 32),                                   \* last byte 32, 32 bytes of 32
      Bytes(15, 9, 1) \o Fill(17, 17),                \* last byte 17, 17 bytes of 17
      Bytes(15, 9, 1) \o <<20>> \o Fill(16, 17) }     \* last byte 17, a wrong byte before

CipherContents ==
    {Bytes(n, 37, 11 * n) : n \in 0..MaxLen}
        \cup {RawEncrypt(p, buf) : p \in CipherPasswords, buf \in CraftedBuffers}

\* SpecKey: one run over many passwords
Pattern1 == Bytes(KeyLen, 5, 17)

KeyPasswords ==
    { <<>>, <<97>>, Secret,
      Pattern1 \o <<97>>,                             \* 33 bytes: the last wraps to position 0
      Pattern1 \o Pattern1,                           \* 64 bytes, folds like ""
      Pattern1 \o Pattern1 \o <<97>>,                 \* 65 bytes, folds like "a"
      Fill(KeyLen, 0) \o Secret }                     \* 38 bytes, folds like "secret"

KeyContents == {Hello}

----------------------------------------------------------------------------
(* The specifications *)

Init == \E c \in AppContents : AppInit("a.txt" :> c, MaxRuns)

Next ==
    \/ \E f \in DOMAIN fs : BrowseFile(Some(f))
    \/ BrowseFile(None)
    \/ \E i \in 1..Len(inflight) : FileSelected(i)
    \/ \E p \in AppPasswords : PasswordChanged(p)
    \/ \E m \in Mode : ModeChanged(m)
    \/ ProcessFile

Spec == Init /\ [][Next]_vars

InitCipher == \E c \in CipherContents : AppInit("a.txt" :> c, CipherRuns)

NextCipher ==
    \/ \E f \in DOMAIN fs : BrowseFile(Some(f))
    \/ BrowseFile(None)
    \/ \E i \in 1..Len(inflight) : FileSelected(i)
    \/ \E p \in CipherPasswords : PasswordChanged(p)
    \/ \E m \in Mode : ModeChanged(m)
    \/ ProcessFile

SpecCipher == InitCipher /\ [][NextCipher]_vars

InitKey == \E c \in KeyContents : AppInit("a.txt" :> c, KeyRuns)

NextKey ==
    \/ \E f \in DOMAIN fs : BrowseFile(Some(f))
    \/ BrowseFile(None)
    \/ \E i \in 1..Len(inflight) : FileSelected(i)
    \/ \E p \in KeyPasswords : PasswordChanged(p)
    \/ \E m \in Mode : ModeChanged(m)
    \/ ProcessFile

SpecKey == InitKey /\ [][NextKey]_vars

----------------------------------------------------------------------------
(* What the properties read off a run *)

\* the run is a ProcessFile that computed the key (line 136)
KeyDerived(run) == Len(run.steps) >= 1

\* the run read its file and went through the cipher step
CipherReached(run) == Len(run.steps) >= 3

\* the cipher step of the run produced a buffer
CipherOk(run) == Len(run.steps) >= 4

\* the step is a ProcessFile message
IsProcessFile == budget' # budget

\* PKCS7 padding of the block size: n bytes of value n at the end, 1 <= n <= 16
ValidPkcs7(buf) ==
    /\ Len(buf) > 0
    /\ LET n == buf[Len(buf)]
       IN  /\ 1 <= n
           /\ n <= BlockSize
           /\ n <= Len(buf)
           /\ \A i \in (Len(buf) - n + 1)..Len(buf) : buf[i] = n

\* a Decrypt input the cipher layer must refuse
IllFormed(key, data) ==
    \/ Len(data) = 0
    \/ Len(data) % BlockSize # 0
    \/ ~ValidPkcs7(CbcDecryptBlocks(key, ZeroIv, data))

\* the XOR of the bytes of p at the indices (from 0) of S
RECURSIVE XorOver(_, _)
XorOver(p, S) ==
    IF S = {} THEN 0
    ELSE LET i == CHOOSE i \in S : TRUE
         IN  Xor(p[i + 1], XorOver(p, S \ {i}))

\* the XOR of the bytes of p at the positions i, i + 32, i + 64, ...
RECURSIVE FoldFrom(_, _)
FoldFrom(p, i) ==
    IF i > Len(p) THEN 0 ELSE Xor(p[i], FoldFrom(p, i + KeyLen))

\* the XOR-fold of p modulo 32
Fold(p) == [j \in 1..KeyLen |-> FoldFrom(p, j)]

----------------------------------------------------------------------------
(* C1: round trip. Decrypting what an Encrypt run produced, with the key    *)
(* and iv of that run, gives the bytes the run read; and a Decrypt run on   *)
(* the file the previous Encrypt run wrote, with the same password, gets    *)
(* the original bytes and, when it completes, has written them.             *)
C1_RoundTrip ==
    /\ (last.mode = Encrypt /\ CipherOk(last))
          => decrypt_vec(last.key, ZeroIv, last.result) = Ok(last.content)
    /\ (/\ prev.outcome = Done /\ prev.mode = Encrypt
        /\ last.mode = Decrypt /\ CipherReached(last)
        /\ last.path = prev.out /\ last.password = prev.password)
          => /\ CipherOk(last)
             /\ last.result = prev.content
             /\ last.outcome = Done => fs[last.out] = prev.content

C1_Witness ==
    /\ prev.outcome = Done /\ prev.mode = Encrypt /\ prev.content = Hello
    /\ prev.password = Secret /\ Len(prev.result) = BlockSize
    /\ last.outcome = Done /\ last.mode = Decrypt /\ last.password = Secret
    /\ last.path = prev.out
    /\ fs["a.txt_Encrypt_Decrypt"] = Hello

(* C2: a failure of a transformation is reported and does not end the       *)
(* process: after a ProcessFile that failed, the application still runs.    *)
C2_FailureDoesNotTerminate == last.outcome \in Panics => running

(* C3: in Decrypt mode an input of length zero, of a length that is no      *)
(* multiple of 16, or whose decrypted last block does not end in valid      *)
(* PKCS7 padding fails with the decrypt error and produces no buffer.       *)
C3_IllFormedFails ==
    (last.mode = Decrypt /\ CipherReached(last) /\ IllFormed(last.key, last.content))
        => (last.outcome = PanicDecrypt /\ last.result = <<>>)

(* C4: after a write of the output file that failed, the output path holds  *)
(* the complete transformed buffer or is as it was before the call.         *)
C4_NoPartialOutput ==
    last.outcome = PanicWrite
        => \/ last.out \in DOMAIN fs /\ fs[last.out] = last.result
           \/ last.before = None /\ last.out \notin DOMAIN fs
           \/ last.before # None /\ last.out \in DOMAIN fs /\ fs[last.out] = last.before[1]

(* C5: the output path is the input path, "_" and the name of the mode; it  *)
(* is not the input path, the input file is left as it was read, and        *)
(* Encrypt on a.txt then Decrypt on the result write a.txt_Encrypt and      *)
(* a.txt_Encrypt_Decrypt and leave a.txt alone.                             *)
C5_OutputPath ==
    /\ CipherOk(last)
          => /\ last.out = last.path \o "_" \o (IF last.mode = Encrypt THEN "Encrypt" ELSE "Decrypt")
             /\ last.out # last.path
             /\ fs[last.path] = last.content
    /\ last.outcome = Done => (last.out \in DOMAIN fs /\ fs[last.out] = last.result)
    /\ (/\ prev.outcome = Done /\ prev.mode = Encrypt /\ prev.path = "a.txt"
        /\ last.outcome = Done /\ last.mode = Decrypt /\ last.path = prev.out)
          => /\ prev.out = "a.txt_Encrypt"
             /\ last.out = "a.txt_Encrypt_Decrypt"
             /\ {"a.txt", "a.txt_Encrypt", "a.txt_Encrypt_Decrypt"} \subseteq DOMAIN fs
             /\ fs["a.txt"] = prev.content

C5_Witness ==
    /\ prev.outcome = Done /\ prev.mode = Encrypt /\ prev.path = "a.txt"
    /\ last.outcome = Done /\ last.mode = Decrypt /\ last.path = "a.txt_Encrypt"
    /\ last.out = "a.txt_Encrypt_Decrypt"
    /\ "a.txt_Encrypt_Decrypt" \in DOMAIN fs

(* C6: the buffer Encrypt produces from L bytes has L + (16 - L mod 16)     *)
(* bytes when L mod 16 # 0 and L + 16 otherwise: a positive multiple of 16, *)
(* longer than the input, and 16 bytes for the empty input.                 *)
C6_CiphertextLength ==
    (last.mode = Encrypt /\ CipherOk(last))
        => LET L == Len(last.content)
               n == Len(last.result)
           IN  /\ n = (IF L % 16 # 0 THEN L + (16 - (L % 16)) ELSE L + 16)
               /\ n > 0
               /\ n % 16 = 0
               /\ n > L
               /\ (L = 0 => n = 16)

C6_Witness ==
    /\ last.mode = Encrypt /\ last.outcome = Done
    /\ Len(last.content) = 32 /\ Len(last.result) = 48

(* C7: password_to_key returns 32 bytes whatever the length of the          *)
(* password, byte j being the XOR of the password bytes at the indices i    *)
(* with i mod 32 = j; the empty password gives the all-zero key.            *)
C7_KeyDerivation ==
    KeyDerived(last)
        => /\ Len(last.key) = 32
           /\ \A j \in 0..31 :
                 /\ last.key[j + 1] \in 0..255
                 /\ last.key[j + 1] =
                       XorOver(last.password, {i \in 0..(Len(last.password) - 1) : i % 32 = j})
           /\ (last.password = <<>> => last.key = [j \in 1..32 |-> 0])

C7_Witness ==
    /\ KeyDerived(last)
    /\ last.password = Pattern1 \o <<97>>
    /\ last.key[1] = Xor(Pattern1[1], 97)
    /\ last.key[2] = Pattern1[2]

\* the fold and the key of every password of KeyPasswords
FoldOfKeyPassword == [q \in KeyPasswords |-> Fold(q)]

KeyOfKeyPassword == [q \in KeyPasswords |-> password_to_key(q)]

(* C8: a 64-byte password that repeats a 32-byte pattern twice derives the  *)
(* all-zero key, the key of the empty password; and every password with    *)
(* the XOR-fold modulo 32 of the password of the run derives the key of    *)
(* the run.                                                                 *)
C8_KnownCollision ==
    KeyDerived(last)
        => /\ (/\ Len(last.password) = 64
               /\ SubSeq(last.password, 1, 32) = SubSeq(last.password, 33, 64))
                 => (last.key = ZeroKey /\ last.key = password_to_key(<<>>))
           /\ LET fold == Fold(last.password)
              IN  \A q \in KeyPasswords :
                     FoldOfKeyPassword[q] = fold => KeyOfKeyPassword[q] = last.key

C8_Witness ==
    /\ KeyDerived(last)
    /\ last.password = Pattern1 \o Pattern1 \o <<97>>
    /\ last.key = password_to_key(<<97>>)
    /\ last.key # ZeroKey

(* C9: in every ProcessFile the steps are in the order open, read, cipher, *)
(* create, write: the buffer is the transformation of the whole content of *)
(* the file as it was, only the output path changes and it gets (a prefix  *)
(* of) that buffer, and a ProcessFile that fails in the open, read or      *)
(* cipher step has created and modified no file.                           *)
C9_StepsInOrder ==
    [][IsProcessFile =>
        /\ \E n \in 0..5 :
              last'.steps = SubSeq(<<StepOpen, StepRead, StepCipher, StepCreate, StepWrite>>, 1, n)
        /\ CipherReached(last') => last'.content = fs[last'.path]
        /\ CipherOk(last')
              => Ok(last'.result) = Transform(last'.mode, last'.key, ZeroIv, fs[last'.path])
        /\ fs' # fs
              => /\ Len(last'.steps) = 5
                 /\ DOMAIN fs' = DOMAIN fs \cup {last'.out}
                 /\ \A f \in DOMAIN fs \ {last'.out} : fs'[f] = fs[f]
                 /\ \E n \in 0..Len(last'.result) : fs'[last'.out] = SubSeq(last'.result, 1, n)
        /\ last'.outcome \in {PanicOpen, PanicRead, PanicDecrypt} => fs' = fs]_vars

C9_Witness ==
    /\ last.outcome = PanicDecrypt
    /\ prev.outcome = Done
    /\ DOMAIN fs = {"a.txt", "a.txt_Encrypt"}

(* C10: ProcessFile with no file selected changes nothing: no file is       *)
(* created or written and file_path, password, mode and message stay; and   *)
(* as long as no file has been selected no ProcessFile has done anything.   *)
C10_NoFileNoOp ==
    /\ [](file_path = None
            => /\ last.outcome \in {"none", NoFile}
               /\ message = ""
               /\ running
               /\ DOMAIN fs = {"a.txt"})
    /\ [][(IsProcessFile /\ file_path = None)
             => /\ UNCHANGED <<file_path, password, mode, message, fs, inflight, running>>
                /\ last'.outcome = NoFile]_vars

C10_Witness ==
    /\ last.outcome = NoFile
    /\ prev.outcome = NoFile
    /\ file_path = None
    /\ password = Secret
    /\ mode = Decrypt

====
